---- MODULE Spec2Model ----
(***************************************************************************)
(* A model of src/main.rs of arti-axum-railway: the orchestrator `run`,    *)
(* the signal forwarder, the arti supervisor, the two axum listeners, the  *)
(* onion-address discovery task and the tokio broadcast channel that      *)
(* carries the shutdown notification.                                      *)
(*                                                                         *)
(* Text is a sequence of characters, so that lines(), trim(), the address   *)
(* regex and parse::<u16>() are computed and not assumed.  A character is  *)
(* the string of itself, or of its code point ("U+00A0") where a TLA+      *)
(* string cannot hold it.                                                  *)
(***************************************************************************)
EXTENDS Integers, Sequences, FiniteSets, TLC

(***************************************************************************)
(* Program constants                                                       *)
(***************************************************************************)
ARTI_MAX_RELAUNCHES == 5
ARTI_RESTART_BACKOFF_SECS == 3
DEFAULT_PORT == 8080
InitialDelaySecs == 2
DiscoveryTimeoutSecs == 30
RetryIntervalSecs == 5
ChannelCapacity == 1
AddrLen == 56
U16Max == 65535

(***************************************************************************)
(* Bounds of the model                                                     *)
(***************************************************************************)
\* longest time, in seconds, one `arti hss onion-address` query takes
MaxQueryDur == 2
\* most lines in the stdout of one query
MaxLines == 2

\* Option<String>: None, or Some(s) for a text s
None == <<>>
Some(s) == <<s>>

(***************************************************************************)
(* Characters                                                              *)
(***************************************************************************)
LowerChars ==
    {"a", "b", "c", "d", "e", "f", "g", "h", "i", "j", "k", "l", "m",
     "n", "o", "p", "q", "r", "s", "t", "u", "v", "w", "x", "y", "z"}
\* the character class [a-z2-7] of the regex
AddrChars == LowerChars \cup {"2", "3", "4", "5", "6", "7"}
DigitChars == {"0", "1", "2", "3", "4", "5", "6", "7", "8", "9"}
\* char::is_whitespace: the characters with the Unicode White_Space property
WhiteChars ==
    {"\t", "\n", "U+000B", "\f", "\r", " ", "U+0085", "U+00A0", "U+1680",
     "U+2000", "U+2001", "U+2002", "U+2003", "U+2004", "U+2005", "U+2006",
     "U+2007", "U+2008", "U+2009", "U+200A", "U+2028", "U+2029", "U+202F",
     "U+205F", "U+3000"}
DotOnion == <<".", "o", "n", "i", "o", "n">>

DigitVal(c) ==
    CASE c = "0" -> 0 [] c = "1" -> 1 [] c = "2" -> 2 [] c = "3" -> 3
      [] c = "4" -> 4 [] c = "5" -> 5 [] c = "6" -> 6 [] c = "7" -> 7
      [] c = "8" -> 8 [] c = "9" -> 9

(***************************************************************************)
(* str::trim, str::lines and Regex::is_match                               *)
(***************************************************************************)
SetMin(S) == CHOOSE x \in S : \A y \in S : x <= y
SetMax(S) == CHOOSE x \in S : \A y \in S : y <= x

\* |s| s.trim(): from the first to the last character that is no whitespace
Trim(s) ==
    LET keep == {i \in 1..Len(s) : s[i] \notin WhiteChars}
    IN  IF keep = {} THEN <<>> ELSE SubSeq(s, SetMin(keep), SetMax(keep))

\* the line of one piece of split_inclusive('\n'): a piece that ends in
\* "\n" loses it and then one "\r" before it; a last piece without "\n" is
\* the line as it is, a trailing "\r" included
LineOf(piece) ==
    IF piece # <<>> /\ piece[Len(piece)] = "\n"
    THEN LET body == SubSeq(piece, 1, Len(piece) - 1)
         IN  IF body # <<>> /\ body[Len(body)] = "\r"
             THEN SubSeq(body, 1, Len(body) - 1)
             ELSE body
    ELSE piece

\* str::lines: the pieces that end at each "\n" and at the end of the text;
\* an empty last piece is no line
Lines(s) ==
    LET breaks == {i \in 1..Len(s) : s[i] = "\n"}
        starts == {a \in {1} \cup {i + 1 : i \in breaks} : a <= Len(s)}
        stop(a) == SetMin({i \in breaks : i >= a} \cup {Len(s)})
        nth(k) == CHOOSE a \in starts : Cardinality({b \in starts : b < a}) = k - 1
    IN  [k \in 1..Cardinality(starts) |-> LineOf(SubSeq(s, nth(k), stop(nth(k))))]

\* the mutant of IsMatch that forgets to escape the dot of \.onion
IsMatchDotWildcard(line) ==
    /\ Len(line) = AddrLen + Len(DotOnion)
    /\ \A i \in 1..AddrLen : line[i] \in AddrChars
    /\ line[AddrLen + 1] # "\n"
    /\ SubSeq(line, AddrLen + 2, Len(line)) = Tail(DotOnion)

\* re.is_match(line) for ^[a-z2-7]{56}\.onion$
IsMatch(line) ==
    /\ Len(line) = AddrLen + Len(DotOnion)
    /\ \A i \in 1..AddrLen : line[i] \in AddrChars
    /\ SubSeq(line, AddrLen + 1, Len(line)) = DotOnion

\* stdout.lines().map(|s| s.trim()).find(|line| re.is_match(line))
RECURSIVE FindFirst(_)
FindFirst(ls) ==
    IF ls = <<>> THEN None
    ELSE IF IsMatch(Trim(Head(ls))) THEN Some(Trim(Head(ls)))
         ELSE FindFirst(Tail(ls))

FindAddress(stdout) == FindFirst(Lines(stdout))

(***************************************************************************)
(* env::var("PORT") and the match that turns it into the public port       *)
(***************************************************************************)
RECURSIVE DigitsValue(_, _)
\* the digits of s in base 10 after acc; -1 on a non-digit or above u16::MAX
DigitsValue(s, acc) ==
    IF s = <<>> THEN acc
    ELSE IF Head(s) \notin DigitChars THEN -1
         ELSE LET v == acc * 10 + DigitVal(Head(s))
              IN  IF v > U16Max THEN -1 ELSE DigitsValue(Tail(s), v)

\* port.parse::<u16>(): the value, or -1 for Err
ParseU16(s) ==
    IF s = <<>> THEN -1
    ELSE IF Len(s) = 1 /\ Head(s) \in {"+", "-"} THEN -1
         ELSE IF Head(s) = "+" THEN DigitsValue(Tail(s), 0)
              ELSE DigitsValue(s, 0)

\* the three results of env::var
NotPresent == [kind |-> "NotPresent", value |-> <<>>]
NotUnicode == [kind |-> "NotUnicode", value |-> <<>>]
EnvOk(s) == [kind |-> "Ok", value |-> s]

\* the match of lines 179-194: the port, or the Startup error it ends in,
\* and whether the port is printed (line 184)
PortOf(env) ==
    IF env = NotPresent
    THEN [ok |-> TRUE, port |-> DEFAULT_PORT, err |-> "none", printed |-> FALSE]
    ELSE IF env = NotUnicode
         THEN [ok |-> FALSE, port |-> 0, err |-> "port_unicode",
               printed |-> FALSE]
    ELSE IF Trim(env.value) = <<>>
         THEN [ok |-> TRUE, port |-> DEFAULT_PORT, err |-> "none",
               printed |-> FALSE]
    ELSE IF ParseU16(env.value) >= 0
         THEN [ok |-> TRUE, port |-> ParseU16(env.value), err |-> "none",
               printed |-> TRUE]
    ELSE [ok |-> FALSE, port |-> 0, err |-> "port_parse", printed |-> FALSE]

(***************************************************************************)
(* Inputs the environment can supply                                       *)
(***************************************************************************)
\* values of the PORT environment variable
PortEnvs ==
    { NotPresent, NotUnicode,
      EnvOk(<<>>), EnvOk(<<" ", "\t">>), EnvOk(<<"\f", "U+00A0">>),
      EnvOk(<<"U+3000", "8", "0">>),
      EnvOk(<<"8", "0", "8", "0">>), EnvOk(<<"+", "8", "0", "8", "0">>),
      EnvOk(<<"0", "8", "0", "8", "0">>),
      EnvOk(<<"6", "5", "5", "3", "5">>), EnvOk(<<"6", "5", "5", "3", "6">>),
      EnvOk(<<" ", "8", "0", "8", "0">>), EnvOk(<<"-", "1">>), EnvOk(<<"+">>),
      EnvOk(<<"n", "o", "t", "a", "n", "u", "m", "b", "e", "r">>) }

Rep(c, n) == [i \in 1..n |-> c]

GoodAddrA == Rep("a", AddrLen) \o DotOnion
GoodAddrB == [i \in 1..AddrLen |-> IF i % 2 = 0 THEN "2" ELSE "z"] \o DotOnion

\* lines a query's stdout is made of: two addresses (one padded with
\* whitespace, ASCII and not) and four lines that look like an address but are none: one
\* character short, a character outside the class, no dot, a longer suffix
SampleLines ==
    { GoodAddrA,
      <<" ", "\t", "\f">> \o GoodAddrB \o <<"U+00A0", " ", "\r">>,
      Rep("a", AddrLen - 1) \o DotOnion,
      Rep("a", AddrLen - 1) \o <<"8">> \o DotOnion,
      Rep("a", AddrLen) \o <<"x">> \o Tail(DotOnion),
      GoodAddrA \o <<"x">> }

RECURSIVE JoinLines(_)
JoinLines(ls) ==
    IF ls = <<>> THEN <<>>
    ELSE IF Len(ls) = 1 THEN Head(ls)
         ELSE Head(ls) \o <<"\n">> \o JoinLines(Tail(ls))

\* every stdout of at most MaxLines sample lines
QueryOutputs ==
    UNION { { JoinLines(ls) : ls \in [1..n -> SampleLines] } : n \in 0..MaxLines }

\* what Command::output().await gives: Err, or Ok with an exit status and stdout
QueryResults ==
    { [kind |-> "err", stdout |-> <<>>] }
      \cup { [kind |-> k, stdout |-> out] :
                k \in {"exit0", "exit1"}, out \in QueryOutputs }

QueryDurs == 0..MaxQueryDur

Listeners == {"onion", "public"}
Receivers == {"onion", "public", "arti"}

(***************************************************************************)
(* State                                                                   *)
(***************************************************************************)
VARIABLES
    runPc,        \* where run() is
    runError,     \* the Error run() returned, "none" while there is none
    sock,         \* per listener: "unbound", "bound" or "closed" (dropped)
    publicPort,   \* public_port, -1 before line 179
    cell,         \* state.onion_address
    lastRead,     \* per handler: <<maybe_addr>> of its last request, <<>> before
    discPc,       \* where the discovery task is
    now,          \* seconds elapsed on the discovery task's clock
    deadline,     \* its deadline, -1 before line 214
    source,       \* the query result a match was found in, and when the
                  \* query was started
    tailPos,      \* number of values sent on the broadcast channel
    next,         \* per receiver: position of its next value, -1 before resubscribe
    fwdPc,        \* the signal forwarder task
    signal,       \* the signal the forwarder saw
    atSignal,     \* what the supervisor was doing when the forwarder sent
    lsPc,         \* per listener: its axum::serve future
    reacted,      \* per receiver: how many times its recv() resolved
    supPc,        \* where supervise_arti is
    attempts,     \* its local `attempts`
    launches,     \* number of Command::spawn calls it made
    backoffSecs,  \* seconds it slept in backoff
    helper,       \* the arti child: "none", "alive", "killed", "exited", "reaped"
    firedRunning, \* a send happened while the supervisor was in select with arti alive
    proc,         \* the process: "running", "exited", or "killed" by a signal
    stdoutOk,     \* a write to the process's stdout succeeds
    stderrOk      \* a write to the process's stderr succeeds

runVars == <<runPc, runError, sock, publicPort>>
discVars == <<discPc, now, deadline, source>>
chanVars == <<tailPos, next>>
fwdVars == <<fwdPc, signal, atSignal>>
lsVars == <<lsPc, reacted>>
supVars == <<supPc, attempts, launches, backoffSecs, helper>>
procVars == <<proc, stdoutOk, stderrOk>>
vars == <<runPc, runError, sock, publicPort, cell, lastRead, discPc, now,
          deadline, source, tailPos, next, fwdPc, signal, atSignal, lsPc,
          reacted, supPc, attempts, launches, backoffSecs, helper, firedRunning,
          proc, stdoutOk, stderrOk>>

NoQuery == [kind |-> "none", stdout |-> <<>>, started |-> -1]

NoSignal ==
    [attempts |-> -1, supPc |-> "none", helper |-> "none", runPc |-> "none"]

Init ==
    /\ runPc = "bind_onion"
    /\ runError = "none"
    /\ sock = [l \in Listeners |-> "unbound"]
    /\ publicPort = -1
    /\ cell = None
    /\ lastRead = [l \in Listeners |-> <<>>]
    /\ discPc = "unspawned"
    /\ now = 0
    /\ deadline = -1
    /\ source = NoQuery
    /\ tailPos = 0
    /\ next = [r \in Receivers |-> -1]
    /\ fwdPc = "unspawned"
    /\ signal = "none"
    /\ atSignal = NoSignal
    /\ lsPc = [l \in Listeners |-> "unstarted"]
    /\ reacted = [r \in Receivers |-> 0]
    /\ supPc = "unspawned"
    /\ attempts = 0
    /\ launches = 0
    /\ backoffSecs = 0
    /\ helper = "none"
    /\ firedRunning = FALSE
    /\ proc = "running"
    /\ stdoutOk = TRUE
    /\ stderrOk = TRUE

\* the mutant of ErrorKind in which a listener's serve error is built as a
\* Startup error
ErrorKindServeAsStartup(e) ==
    IF e \in {"bind_onion", "onion_local_addr", "port_parse", "port_unicode",
              "bind_public", "public_local_addr", "onion_service",
              "public_service"}
    THEN "Startup"
    ELSE IF e \in {"restart_limit", "join"} THEN "Runtime" ELSE "none"

\* the Error variant of each error run() builds
ErrorKind(e) ==
    IF e \in {"bind_onion", "onion_local_addr", "port_parse", "port_unicode",
              "bind_public", "public_local_addr"}
    THEN "Startup"
    ELSE IF e \in {"onion_service", "public_service", "restart_limit", "join"}
         THEN "Runtime"
         ELSE "none"

\* the process still runs: it has not exited and no signal has killed it.
\* The tasks go on running between the return of run() and the exit.
ProcessAlive == proc = "running"

\* what run() returned: "Ok", "Startup" or "Runtime"; "Panic" when it
\* panicked instead; "none" while it runs
RunResult ==
    IF runPc = "panicked" THEN "Panic"
    ELSE IF runPc # "returned" THEN "none"
    ELSE IF runError = "none" THEN "Ok" ELSE ErrorKind(runError)

\* println!: it returns when stdout takes the write and panics otherwise
Println == stdoutOk

\* eprintln!: the same on stderr
Eprintln == stderrOk

\* lines 309-315: the exit code main ends with for what run() did: 0 for Ok,
\* 1 for Err once the error is written, 101 for a panic, of run() or of
\* main's own eprintln!
ExitCode ==
    IF RunResult = "Ok" THEN 0
    ELSE IF RunResult = "Panic" THEN 101
    ELSE IF Eprintln THEN 1 ELSE 101

\* the locals of run() are dropped, the listeners it still owns among them
DropLocals ==
    sock' = [l \in Listeners |-> IF sock[l] = "bound" THEN "closed" ELSE sock[l]]

\* return Err(e)
ReturnErr(e) ==
    /\ runPc' = "returned"
    /\ runError' = e
    /\ DropLocals

\* a println! of run() panics: run() unwinds and returns nothing
RunPanics ==
    /\ runPc' = "panicked"
    /\ UNCHANGED runError
    /\ DropLocals

(***************************************************************************)
(* run(): startup, lines 152-206                                           *)
(***************************************************************************)
BindOnion ==
    /\ ProcessAlive
    /\ runPc = "bind_onion"
    /\ \E ok \in BOOLEAN :
         IF ok
         THEN /\ sock' = [sock EXCEPT !["onion"] = "bound"]
              /\ runPc' = "onion_local_addr"
              /\ UNCHANGED runError
         ELSE ReturnErr("bind_onion")
    /\ UNCHANGED <<publicPort, cell, lastRead, discVars, chanVars, fwdVars,
                   lsVars, supVars, firedRunning,
                   procVars>>

\* lines 170-175: local_addr(), then the println! of the address
OnionLocalAddr ==
    /\ ProcessAlive
    /\ runPc = "onion_local_addr"
    /\ \E ok \in BOOLEAN :
         IF ~ok THEN ReturnErr("onion_local_addr")
         ELSE IF ~Println THEN RunPanics
         ELSE /\ runPc' = "parse_port"
              /\ UNCHANGED <<runError, sock>>
    /\ UNCHANGED <<publicPort, cell, lastRead, discVars, chanVars, fwdVars,
                   lsVars, supVars, firedRunning, procVars>>

\* lines 179-194; a port parsed from PORT is printed (line 184)
ParsePort ==
    /\ ProcessAlive
    /\ runPc = "parse_port"
    /\ \E env \in PortEnvs :
         IF ~PortOf(env).ok
         THEN /\ ReturnErr(PortOf(env).err)
              /\ UNCHANGED publicPort
         ELSE IF PortOf(env).printed /\ ~Println
         THEN /\ RunPanics
              /\ UNCHANGED publicPort
         ELSE /\ publicPort' = PortOf(env).port
              /\ runPc' = "bind_public"
              /\ UNCHANGED <<runError, sock>>
    /\ UNCHANGED <<cell, lastRead, discVars, chanVars, fwdVars, lsVars,
                   supVars, firedRunning, procVars>>

BindPublic ==
    /\ ProcessAlive
    /\ runPc = "bind_public"
    /\ \E ok \in BOOLEAN :
         IF ok
         THEN /\ sock' = [sock EXCEPT !["public"] = "bound"]
              /\ runPc' = "public_local_addr"
              /\ UNCHANGED runError
         ELSE ReturnErr("bind_public")
    /\ UNCHANGED <<publicPort, cell, lastRead, discVars, chanVars, fwdVars,
                   lsVars, supVars, firedRunning,
                   procVars>>

\* lines 201-206: local_addr(), then the println! of the address
PublicLocalAddr ==
    /\ ProcessAlive
    /\ runPc = "public_local_addr"
    /\ \E ok \in BOOLEAN :
         IF ~ok THEN ReturnErr("public_local_addr")
         ELSE IF ~Println THEN RunPanics
         ELSE /\ runPc' = "spawn_discovery"
              /\ UNCHANGED <<runError, sock>>
    /\ UNCHANGED <<publicPort, cell, lastRead, discVars, chanVars, fwdVars,
                   lsVars, supVars, firedRunning, procVars>>

(***************************************************************************)
(* tokio::sync::broadcast, capacity 1.  The forwarder and the supervisor   *)
(* hold senders as long as they run and run() holds one until it ends, so  *)
(* no listener that serves and no supervisor sees the channel closed; a    *)
(* send with no receiver left stores nothing.                              *)
(***************************************************************************)
\* every sender is dropped: shutdown_tx of run(), tx1 and tx2 of the
\* forwarder task, shutdown_tx of supervise_arti
ChannelClosed ==
    /\ runPc \in {"returned", "panicked"}
    /\ fwdPc \in {"done", "panicked"}
    /\ supPc \in {"stopped", "failed", "panicked"}

\* shutdown_rx, a local of run() from line 256 until run() ends
RunRxHeld ==
    runPc \in {"sub_onion", "sub_public", "sub_arti", "spawn_supervisor",
               "start_servers", "join", "await_arti"}

\* onion_shutdown and public_shutdown: each is moved into the shutdown
\* future of its listener (lines 268-275) and dropped when its recv resolved
ListenerRxHeld(l) == next[l] >= 0 /\ reacted[l] = 0

\* arti_shutdown: the `shutdown` parameter of supervise_arti, dropped when
\* the supervisor task ends
ArtiRxHeld ==
    next["arti"] >= 0 /\ supPc \notin {"stopped", "failed", "panicked"}

\* Sender::receiver_count
ReceiverCount ==
    (IF RunRxHeld THEN 1 ELSE 0)
    + Cardinality({l \in Listeners : ListenerRxHeld(l)})
    + (IF ArtiRxHeld THEN 1 ELSE 0)

\* tx.send(()): the value takes the next position of the ring; with no
\* receiver left it returns Err(SendError), which `let _ =` drops, and
\* nothing is stored
Send == tailPos' = IF ReceiverCount > 0 THEN tailPos + 1 ELSE tailPos

\* rx.resubscribe(): a receiver that starts at the tail and so sees only
\* the values sent after it is made
Resubscribe(r) == next' = [next EXCEPT ![r] = tailPos]

\* the mutant of RecvReady in which a receiver that fell behind stays blocked
RecvReadyUnlessLagged(r) == next[r] >= 0 /\ tailPos - next[r] = 1

\* rx.recv() resolves: a value was sent since the receiver's position
RecvReady(r) == next[r] >= 0 /\ next[r] < tailPos

\* what it resolves to: Ok(()), or Err(Lagged) when the ring overwrote
\* the value at the receiver's position
RecvResult(r) ==
    IF tailPos - next[r] > ChannelCapacity THEN "Lagged" ELSE "Ok"

\* the receiver's position afterwards
RecvAdvance(r) ==
    IF tailPos - next[r] > ChannelCapacity
    THEN tailPos - ChannelCapacity
    ELSE next[r] + 1

(***************************************************************************)
(* run(): lines 208-275, spawning the tasks                                *)
(***************************************************************************)
SpawnDiscovery ==
    /\ ProcessAlive
    /\ runPc = "spawn_discovery"
    /\ runPc' = "create_channel"
    /\ discPc' = "initial_sleep"
    /\ UNCHANGED <<runError, sock, publicPort, cell, lastRead, now, deadline,
                   source, chanVars, fwdVars, lsVars, supVars, firedRunning,
                   procVars>>

\* broadcast::channel(1) and install_signal_forwarders, which spawns the
\* forwarder task; the task installs its handlers only when it is first polled
CreateChannel ==
    /\ ProcessAlive
    /\ runPc = "create_channel"
    /\ runPc' = "sub_onion"
    /\ fwdPc' = "spawned"
    /\ UNCHANGED <<runError, sock, publicPort, cell, lastRead, discVars,
                   chanVars, signal, atSignal, lsVars, supVars, firedRunning,
                   procVars>>

SubscribeOnion ==
    /\ ProcessAlive
    /\ runPc = "sub_onion"
    /\ Resubscribe("onion")
    /\ runPc' = "sub_public"
    /\ UNCHANGED <<runError, sock, publicPort, cell, lastRead, discVars,
                   tailPos, fwdVars, lsVars, supVars, firedRunning,
                   procVars>>

SubscribePublic ==
    /\ ProcessAlive
    /\ runPc = "sub_public"
    /\ Resubscribe("public")
    /\ runPc' = "sub_arti"
    /\ UNCHANGED <<runError, sock, publicPort, cell, lastRead, discVars,
                   tailPos, fwdVars, lsVars, supVars, firedRunning,
                   procVars>>

SubscribeArti ==
    /\ ProcessAlive
    /\ runPc = "sub_arti"
    /\ Resubscribe("arti")
    /\ runPc' = "spawn_supervisor"
    /\ UNCHANGED <<runError, sock, publicPort, cell, lastRead, discVars,
                   tailPos, fwdVars, lsVars, supVars, firedRunning,
                   procVars>>

SpawnSupervisor ==
    /\ ProcessAlive
    /\ runPc = "spawn_supervisor"
    /\ runPc' = "start_servers"
    /\ supPc' = "loop_top"
    /\ UNCHANGED <<runError, sock, publicPort, cell, lastRead, discVars,
                   chanVars, fwdVars, lsVars, attempts, launches, backoffSecs,
                   helper, firedRunning,
                   procVars>>

\* lines 268-278: the two serve futures are built, each owning its listener,
\* and join! polls them
StartServers ==
    /\ ProcessAlive
    /\ runPc = "start_servers"
    /\ runPc' = "join"
    /\ lsPc' = [l \in Listeners |-> "serving"]
    /\ UNCHANGED <<runError, sock, publicPort, cell, lastRead, discVars,
                   chanVars, fwdVars, reacted, supVars, firedRunning,
                   procVars>>

(***************************************************************************)
(* The signal forwarder task, lines 25-53                                  *)
(***************************************************************************)
\* lines 27 and 34, at the task's first poll: the SIGINT and SIGTERM handlers
\* are installed; they stay installed for the life of the process
FwdRegister ==
    /\ ProcessAlive
    /\ fwdPc = "spawned"
    /\ fwdPc' = "waiting"
    /\ UNCHANGED <<runVars, cell, lastRead, discVars, chanVars, signal,
                   atSignal, lsVars, supVars, firedRunning, procVars>>

\* every socket of the process is closed when the process ends
CloseAll ==
    sock' = [l \in Listeners |->
                IF sock[l] = "unbound" THEN "unbound" ELSE "closed"]

\* SIGINT or SIGTERM before the handlers are installed: the default
\* disposition ends the process
SignalKills ==
    /\ ProcessAlive
    /\ fwdPc \in {"unspawned", "spawned"}
    /\ \E sig \in {"ctrl_c", "terminate"} : signal' = sig
    /\ proc' = "killed"
    /\ CloseAll
    /\ UNCHANGED <<runPc, runError, publicPort, cell, lastRead, discVars,
                   chanVars, fwdPc, atSignal, lsVars, supVars, firedRunning,
                   stdoutOk, stderrOk>>

\* lines 43-52: a signal arrives; the message is printed (lines 45, 49) and
\* then the notification is sent (lines 46, 50), unless no receiver is left;
\* when the println! panics the task ends and nothing is sent
Forward(sig) ==
    /\ ProcessAlive
    /\ fwdPc = "waiting"
    /\ signal' = sig
    /\ IF Println
       THEN /\ Send
            /\ fwdPc' = "done"
            /\ IF ReceiverCount > 0
               THEN /\ atSignal' = [attempts |-> attempts, supPc |-> supPc,
                                    helper |-> helper, runPc |-> runPc]
                    /\ firedRunning' =
                           (firedRunning
                              \/ (supPc = "select" /\ helper = "alive"))
               ELSE UNCHANGED <<atSignal, firedRunning>>
       ELSE /\ fwdPc' = "panicked"
            /\ UNCHANGED <<tailPos, atSignal, firedRunning>>
    /\ UNCHANGED <<runVars, cell, lastRead, discVars, next, lsVars, supVars,
                   procVars>>

FwdCtrlC == Forward("ctrl_c")

FwdTerminate == Forward("terminate")

(***************************************************************************)
(* The listeners: axum::serve(..).with_graceful_shutdown(recv)             *)
(***************************************************************************)
\* the graceful-shutdown future resolves, on Ok and on Err(Lagged) alike:
\* the serve future stops accepting and drops its listener
ListenerShutdown(l) ==
    /\ ProcessAlive
    /\ lsPc[l] = "serving"
    /\ RecvReady(l)
    /\ next' = [next EXCEPT ![l] = RecvAdvance(l)]
    /\ reacted' = [reacted EXCEPT ![l] = @ + 1]
    /\ lsPc' = [lsPc EXCEPT ![l] = "draining"]
    /\ sock' = [sock EXCEPT ![l] = "closed"]
    /\ UNCHANGED <<runPc, runError, publicPort, cell, lastRead, discVars,
                   tailPos, fwdVars, supVars, firedRunning, procVars>>

\* the connections are drained and the serve future returns Ok
ListenerDrained(l) ==
    /\ ProcessAlive
    /\ lsPc[l] = "draining"
    /\ lsPc' = [lsPc EXCEPT ![l] = "done_ok"]
    /\ UNCHANGED <<runVars, cell, lastRead, discVars, chanVars, fwdVars,
                   reacted, supVars, firedRunning,
                   procVars>>

\* the serve future returns Err while serving, and its listener is dropped
ListenerError(l) ==
    /\ ProcessAlive
    /\ lsPc[l] = "serving"
    /\ lsPc' = [lsPc EXCEPT ![l] = "done_err"]
    /\ sock' = [sock EXCEPT ![l] = "closed"]
    /\ UNCHANGED <<runPc, runError, publicPort, cell, lastRead, discVars,
                   chanVars, fwdVars, reacted, supVars, firedRunning,
                   procVars>>

\* the shutdown future of a listener whose serve future has returned Err is
\* still polled: its recv resolves, on a value or on the closed channel, and
\* the receiver is dropped
ListenerLateRecv(l) ==
    /\ ProcessAlive
    /\ lsPc[l] = "done_err"
    /\ reacted[l] = 0
    /\ RecvReady(l) \/ ChannelClosed
    /\ next' = [next EXCEPT ![l] = IF RecvReady(l) THEN RecvAdvance(l) ELSE @]
    /\ reacted' = [reacted EXCEPT ![l] = @ + 1]
    /\ UNCHANGED <<runVars, cell, lastRead, discVars, tailPos, fwdVars, lsPc,
                   supVars, firedRunning, procVars>>

OnionLateRecv == ListenerLateRecv("onion")
PublicLateRecv == ListenerLateRecv("public")
OnionShutdown == ListenerShutdown("onion")
PublicShutdown == ListenerShutdown("public")
OnionDrained == ListenerDrained("onion")
PublicDrained == ListenerDrained("public")
OnionError == ListenerError("onion")
PublicError == ListenerError("public")

ListenerDone(l) == lsPc[l] \in {"done_ok", "done_err"}

(***************************************************************************)
(* supervise_arti, lines 61-127                                            *)
(***************************************************************************)
\* the mutant of SupLimitNotify that returns without requesting shutdown
SupLimitNotifySkipped == UNCHANGED tailPos

\* line 73: let _ = shutdown_tx.send(())
SupLimitNotify == Send

\* lines 68-73: the budget is spent; the supervisor writes the message to
\* stderr and then requests shutdown; when the eprintln! panics the task
\* ends and nothing is sent
SupLimit ==
    /\ ProcessAlive
    /\ supPc = "loop_top"
    /\ attempts >= ARTI_MAX_RELAUNCHES
    /\ IF Eprintln
       THEN SupLimitNotify /\ supPc' = "limit_sent"
       ELSE UNCHANGED tailPos /\ supPc' = "panicked"
    /\ UNCHANGED <<runVars, cell, lastRead, discVars, next, fwdVars, lsVars,
                   attempts, launches, backoffSecs, helper, firedRunning,
                   procVars>>

\* line 74: return Err(())
SupFail ==
    /\ ProcessAlive
    /\ supPc = "limit_sent"
    /\ supPc' = "failed"
    /\ UNCHANGED <<runVars, cell, lastRead, discVars, chanVars, fwdVars,
                   lsVars, attempts, launches, backoffSecs, helper,
                   firedRunning,
                   procVars>>

\* the mutant of AttemptsAfterLaunch that counts only the failed spawns
AttemptsAfterLaunchFailedOnly(ok) == IF ok THEN attempts ELSE attempts + 1

\* line 85: attempts += 1, before the spawn and whatever its result
AttemptsAfterLaunch(ok) == attempts + 1

\* lines 77-100: one launch attempt.  A relaunch is announced on stdout
\* first (line 78) and a failed spawn is reported on stderr (line 96); a
\* panic of either ends the task
SupLaunch ==
    /\ ProcessAlive
    /\ supPc = "loop_top"
    /\ attempts < ARTI_MAX_RELAUNCHES
    /\ IF attempts > 0 /\ ~Println
       THEN /\ supPc' = "panicked"
            /\ UNCHANGED <<attempts, launches, helper>>
       ELSE /\ launches' = launches + 1
            /\ \E ok \in BOOLEAN :
                 /\ attempts' = AttemptsAfterLaunch(ok)
                 /\ IF ok
                    THEN helper' = "alive" /\ supPc' = "select"
                    ELSE /\ helper' = helper
                         /\ supPc' = IF Eprintln THEN "backoff_spawn"
                                     ELSE "panicked"
    /\ UNCHANGED <<runVars, cell, lastRead, discVars, chanVars, fwdVars,
                   lsVars, backoffSecs, firedRunning, procVars>>

\* arti exits on its own; it stays a zombie until it is waited on
HelperExits ==
    /\ helper = "alive"
    /\ helper' = "exited"
    /\ UNCHANGED <<runVars, cell, lastRead, discVars, chanVars, fwdVars,
                   lsVars, supPc, attempts, launches, backoffSecs,
                   firedRunning,
                   procVars>>

\* the kill signal takes effect
HelperKilled ==
    /\ helper = "killed"
    /\ helper' = "exited"
    /\ UNCHANGED <<runVars, cell, lastRead, discVars, chanVars, fwdVars,
                   lsVars, supPc, attempts, launches, backoffSecs,
                   firedRunning,
                   procVars>>

\* lines 103-116: the select! takes the child.wait() branch, which reaps
\* the child, and the exit is reported on stderr
SupChildExited ==
    /\ ProcessAlive
    /\ supPc = "select"
    /\ helper = "exited"
    /\ helper' = "reaped"
    /\ supPc' = IF Eprintln THEN "backoff_exit" ELSE "panicked"
    /\ UNCHANGED <<runVars, cell, lastRead, discVars, chanVars, fwdVars,
                   lsVars, attempts, launches, backoffSecs, firedRunning,
                   procVars>>

\* lines 97 and 116: the backoff sleep ends and the loop starts over
SupBackoffDone ==
    /\ ProcessAlive
    /\ supPc \in {"backoff_spawn", "backoff_exit"}
    /\ backoffSecs' = backoffSecs + ARTI_RESTART_BACKOFF_SECS
    /\ supPc' = "loop_top"
    /\ UNCHANGED <<runVars, cell, lastRead, discVars, chanVars, fwdVars,
                   lsVars, attempts, launches, helper, firedRunning,
                   procVars>>

\* the mutant of StartKill that leaves the child running
StartKillSkipped(h) == h

\* line 121: child.start_kill() signals the child if it still runs
StartKill(h) == IF h = "alive" THEN "killed" ELSE h

\* lines 119-121: the select! takes the shutdown.recv() branch, on Ok and on
\* Err(Lagged) alike, and start_kill signals the child if it still runs
SupShutdown ==
    /\ ProcessAlive
    /\ supPc = "select"
    /\ RecvReady("arti")
    /\ next' = [next EXCEPT !["arti"] = RecvAdvance("arti")]
    /\ reacted' = [reacted EXCEPT !["arti"] = @ + 1]
    /\ helper' = StartKill(helper)
    /\ supPc' = "reaping"
    /\ UNCHANGED <<runVars, cell, lastRead, discVars, tailPos, fwdVars, lsPc,
                   attempts, launches, backoffSecs, firedRunning,
                   procVars>>

\* the mutant of ChildWaited that returns without waiting for the child
ChildWaitedNoWait == TRUE

\* line 122: child.wait().await resolves once the child has exited
ChildWaited == helper = "exited"

\* what waiting does to the child: an exited child is reaped
Reap(h) == IF h = "exited" THEN "reaped" ELSE h

\* lines 122-123: child.wait() returns and the supervisor returns Ok(())
SupReaped ==
    /\ ProcessAlive
    /\ supPc = "reaping"
    /\ ChildWaited
    /\ helper' = Reap(helper)
    /\ supPc' = "stopped"
    /\ UNCHANGED <<runVars, cell, lastRead, discVars, chanVars, fwdVars,
                   lsVars, attempts, launches, backoffSecs, firedRunning,
                   procVars>>

\* supervise_arti returned
SupDone == supPc \in {"stopped", "failed"}

\* the supervisor task ended, by returning or by a panic
SupEnded == SupDone \/ supPc = "panicked"

(***************************************************************************)
(* run(): lines 278-304, the outcome                                       *)
(***************************************************************************)
\* the mutant of JoinReady that stops waiting at the first listener error
JoinReadyOnFirstError ==
    \/ \A l \in Listeners : ListenerDone(l)
    \/ \E l \in Listeners : lsPc[l] = "done_err"

\* line 278: tokio::join! resolves when both serve futures have resolved
JoinReady == \A l \in Listeners : ListenerDone(l)

\* join! has both results; lines 280-290 look at them in turn
JoinDone ==
    /\ ProcessAlive
    /\ runPc = "join"
    /\ JoinReady
    /\ IF lsPc["onion"] = "done_err" THEN ReturnErr("onion_service")
       ELSE IF lsPc["public"] = "done_err" THEN ReturnErr("public_service")
       ELSE runPc' = "await_arti" /\ UNCHANGED <<runError, sock>>
    /\ UNCHANGED <<publicPort, cell, lastRead, discVars, chanVars, fwdVars,
                   lsVars, supVars, firedRunning,
                   procVars>>

\* what arti_handle.await gives once the task has ended: the task's result,
\* or a JoinError for a task that panicked
ArtiResult ==
    IF supPc = "stopped" THEN "ok_ok"
    ELSE IF supPc = "failed" THEN "ok_err"
    ELSE "join_err"

\* the match of lines 295-304
OutcomeOf(res) ==
    IF res = "ok_ok" THEN "none"
    ELSE IF res = "ok_err" THEN "restart_limit"
    ELSE "join"

\* lines 293-304; on Ok(Ok(())) the farewell is printed first (line 297)
AwaitArti ==
    /\ ProcessAlive
    /\ runPc = "await_arti"
    /\ SupEnded
    /\ IF OutcomeOf(ArtiResult) # "none" THEN ReturnErr(OutcomeOf(ArtiResult))
       ELSE IF ~Println THEN RunPanics
       ELSE /\ runPc' = "returned"
            /\ runError' = "none"
            /\ DropLocals
    /\ UNCHANGED <<publicPort, cell, lastRead, discVars, chanVars, fwdVars,
                   lsVars, supVars, firedRunning, procVars>>

\* line 91, kill_on_drop(true): what the drop of the Child can leave.  An
\* arti that still runs is sent the kill signal, and the drop then tries to
\* wait on it: an arti that has died by then is reaped, one that has not is
\* left behind killed; an arti that had exited already is reaped
KillOnDrop(h) ==
    IF h \in {"alive", "killed"} THEN {"killed", "reaped"}
    ELSE IF h = "exited" THEN {"reaped"}
    ELSE {h}

\* line 313: main ends in process::exit(1), which runs no destructor; this
\* is the case when run() returned Err and the eprintln! of line 312 wrote it
ExitsWithoutUnwinding == RunResult \in {"Startup", "Runtime"} /\ Eprintln

\* lines 309-315 and the end of main: the process exits; until then the
\* spawned tasks keep running.  On Err the error is written to stderr and
\* process::exit(1) leaves a running arti alive.  When main returns, or
\* unwinds from a panic of run() or of its own eprintln!, the runtime is
\* dropped and with it the supervisor task and its Child.
ProcessExit ==
    /\ ProcessAlive
    /\ runPc \in {"returned", "panicked"}
    /\ proc' = "exited"
    /\ CloseAll
    /\ helper' \in IF ExitsWithoutUnwinding THEN {helper}
                    ELSE KillOnDrop(helper)
    /\ UNCHANGED <<runPc, runError, publicPort, cell, lastRead, discVars,
                   chanVars, fwdVars, lsVars, supPc, attempts, launches,
                   backoffSecs, firedRunning, stdoutOk, stderrOk>>

\* the reader of the process's stdout goes away
StdoutBreaks ==
    /\ ProcessAlive
    /\ stdoutOk
    /\ stdoutOk' = FALSE
    /\ UNCHANGED <<runVars, cell, lastRead, discVars, chanVars, fwdVars,
                   lsVars, supVars, firedRunning, proc, stderrOk>>

\* the reader of the process's stderr goes away
StderrBreaks ==
    /\ ProcessAlive
    /\ stderrOk
    /\ stderrOk' = FALSE
    /\ UNCHANGED <<runVars, cell, lastRead, discVars, chanVars, fwdVars,
                   lsVars, supVars, firedRunning, proc, stdoutOk>>

(***************************************************************************)
(* The discovery task, lines 211-252.  `now` is the task's own clock: it   *)
(* advances while the task sleeps and while a query runs.                  *)
(***************************************************************************)
\* lines 213-215: the initial delay, then the deadline is fixed
DiscInitialSleep ==
    /\ ProcessAlive
    /\ discPc = "initial_sleep"
    /\ now' = now + InitialDelaySecs
    /\ deadline' = now' + DiscoveryTimeoutSecs
    /\ discPc' = "loop"
    /\ UNCHANGED <<runVars, cell, lastRead, source, chanVars, fwdVars,
                   lsVars, supVars, firedRunning,
                   procVars>>

\* lines 217-224: the query command is started
DiscStartQuery ==
    /\ ProcessAlive
    /\ discPc = "loop"
    /\ discPc' = "inflight"
    /\ UNCHANGED <<runVars, cell, lastRead, now, deadline, source, chanVars, fwdVars,
                   lsVars, supVars, firedRunning,
                   procVars>>

\* lines 227-234: the address a query result makes the task publish, if any
Published(res) ==
    IF res.kind = "exit0" THEN FindAddress(res.stdout) ELSE None

\* the mutant of AfterPublish that keeps polling after a write
AfterPublishKeepPolling == "check"

\* line 240: break
AfterPublish == "found"

\* Published, worked out once for every result the model draws
PublishedOf == [res \in QueryResults |-> Published(res)]

\* the mutant of Examined in which the deadline is looked at first, so that
\* a match that comes back past it is dropped
ExaminedUnlessLate(found) == IF now' >= deadline THEN None ELSE found

\* lines 227-230: the match is examined as soon as the output is in hand,
\* before the deadline check of line 245
Examined(found) == found

\* lines 225-243: the query returns after d seconds; a match is written
\* and then announced on stdout (line 239)
QueryReturns(durs, results) ==
    /\ ProcessAlive
    /\ discPc = "inflight"
    /\ \E d \in durs, res \in results :
         /\ now' = now + d
         /\ source' = IF PublishedOf[res] # None
                      THEN [kind |-> res.kind, stdout |-> res.stdout,
                            started |-> now]
                      ELSE source
         /\ IF Examined(PublishedOf[res]) # None
            THEN /\ cell' = Examined(PublishedOf[res])
                 /\ discPc' = IF Println THEN AfterPublish ELSE "panicked"
            ELSE /\ UNCHANGED cell
                 /\ discPc' = "check"
    /\ UNCHANGED <<runVars, lastRead, deadline, chanVars, fwdVars, lsVars,
                   supVars, firedRunning,
                   procVars>>

DiscQueryReturns == QueryReturns(QueryDurs, QueryResults)

\* the query results of at most one line, and the shortest and longest runs
BriefResults == {res \in QueryResults : Len(Lines(res.stdout)) <= 1}
BriefDurs == {0, MaxQueryDur}

DiscQueryReturnsBrief == QueryReturns(BriefDurs, BriefResults)

\* the mutant of DeadlinePassed that gives up when the next retry would
\* start past the deadline
DeadlinePassedEarly == now + RetryIntervalSecs >= deadline

\* line 245: Instant::now() >= deadline
DeadlinePassed == now >= deadline

\* the mutant of DiscGiveUp in which giving up requests shutdown
DiscGiveUpFiresShutdown == Send

\* lines 246-247: the task logs and breaks; it holds no sender
DiscGiveUp == UNCHANGED tailPos

\* lines 245-248; giving up is announced on stdout (line 246)
DiscDeadlineCheck ==
    /\ ProcessAlive
    /\ discPc = "check"
    /\ IF DeadlinePassed
       THEN /\ discPc' = IF Println THEN "timeout" ELSE "panicked"
            /\ DiscGiveUp
       ELSE discPc' = "retry_sleep" /\ UNCHANGED tailPos
    /\ UNCHANGED <<runVars, cell, lastRead, now, deadline, source,
                   next, fwdVars, lsVars, supVars, firedRunning,
                   procVars>>

\* line 250
DiscRetrySleep ==
    /\ ProcessAlive
    /\ discPc = "retry_sleep"
    /\ now' = now + RetryIntervalSecs
    /\ discPc' = "loop"
    /\ UNCHANGED <<runVars, cell, lastRead, deadline, source, chanVars,
                   fwdVars, lsVars, supVars, firedRunning,
                   procVars>>

(***************************************************************************)
(* The request handlers, lines 134-150                                     *)
(***************************************************************************)
\* state.onion_address.read().clone()
Handle(l) ==
    /\ ProcessAlive
    /\ lsPc[l] \in {"serving", "draining"}
    /\ lastRead' = [lastRead EXCEPT ![l] = <<cell>>]
    /\ UNCHANGED <<runVars, cell, discVars, chanVars, fwdVars, lsVars,
                   supVars, firedRunning,
                   procVars>>

OnionHandler == Handle("onion")

PublicHandler == Handle("public")

(***************************************************************************)
(* Specifications                                                          *)
(***************************************************************************)
Startup ==
    \/ BindOnion \/ OnionLocalAddr \/ ParsePort \/ BindPublic
    \/ PublicLocalAddr \/ SpawnDiscovery \/ CreateChannel \/ SubscribeOnion
    \/ SubscribePublic \/ SubscribeArti \/ SpawnSupervisor \/ StartServers

\* run(), the signal forwarder, the listeners and the supervisor, with
\* stdout and stderr writable throughout
Next ==
    \/ Startup
    \/ JoinDone \/ AwaitArti \/ ProcessExit
    \/ FwdRegister \/ SignalKills \/ FwdCtrlC \/ FwdTerminate
    \/ OnionShutdown \/ PublicShutdown \/ OnionDrained \/ PublicDrained
    \/ OnionError \/ PublicError \/ OnionLateRecv \/ PublicLateRecv
    \/ SupLimit \/ SupFail \/ SupLaunch \/ HelperExits \/ HelperKilled
    \/ SupChildExited \/ SupBackoffDone \/ SupShutdown \/ SupReaped

Spec == Init /\ [][Next]_vars

\* the same, with stdout and stderr that can stop taking writes at any time
NextPipes == Next \/ StdoutBreaks \/ StderrBreaks

SpecPipes == Init /\ [][NextPipes]_vars

\* run() up to serving, the discovery task and the request handlers
NextDiscovery ==
    \/ Startup
    \/ DiscInitialSleep \/ DiscStartQuery \/ DiscQueryReturns
    \/ DiscDeadlineCheck \/ DiscRetrySleep
    \/ OnionHandler \/ PublicHandler

SpecDiscovery == Init /\ [][NextDiscovery]_vars

\* the tokio scheduler runs every task that can run, timers fire, a killed
\* process dies, a listener told to stop drains and main() exits once run()
\* is over; signals, helper exits and listener errors may never happen
Fairness ==
    /\ WF_vars(Startup) /\ WF_vars(JoinDone) /\ WF_vars(AwaitArti)
    /\ WF_vars(ProcessExit)
    /\ WF_vars(FwdRegister)
    /\ WF_vars(OnionShutdown) /\ WF_vars(PublicShutdown)
    /\ WF_vars(OnionDrained) /\ WF_vars(PublicDrained)
    /\ WF_vars(OnionLateRecv) /\ WF_vars(PublicLateRecv)
    /\ WF_vars(SupLimit) /\ WF_vars(SupFail) /\ WF_vars(SupLaunch)
    /\ WF_vars(HelperKilled) /\ WF_vars(SupChildExited)
    /\ WF_vars(SupBackoffDone) /\ WF_vars(SupShutdown) /\ WF_vars(SupReaped)

FairSpec == Spec /\ Fairness

(***************************************************************************)
(* Claims                                                                  *)
(***************************************************************************)

\* C1: the attempt counter starts at 0, stays within 0..5, grows only by 1
\* and only together with a launch attempt (successful or not), and is
\* never reset; every launch after the first comes after one more backoff
\* of 3 seconds; a helper exit the supervisor observes and a launch failure
\* lead to the backoff; from the top of the loop the supervisor launches again
\* while the counter is below 5 and otherwise notifies and fails without
\* launching; once failed it launches no more, so there are at most 5
\* launch attempts.
C1_AttemptBudget ==
    /\ attempts = 0
    /\ [](/\ attempts \in 0..ARTI_MAX_RELAUNCHES
          /\ launches = attempts
          /\ (supPc \in {"limit_sent", "failed"} => attempts = ARTI_MAX_RELAUNCHES))
    /\ [][\/ attempts' = attempts /\ launches' = launches
          \/ /\ attempts' = attempts + 1
             /\ launches' = launches + 1
             /\ attempts < ARTI_MAX_RELAUNCHES
             /\ backoffSecs = ARTI_RESTART_BACKOFF_SECS * launches]_vars
    /\ [][(supPc = "select" /\ helper' = "reaped") => (supPc' = "backoff_exit")]_vars
    /\ [][(launches' # launches /\ helper' # "alive") => (supPc' = "backoff_spawn")]_vars
    /\ [][(supPc \in {"backoff_spawn", "backoff_exit"} /\ supPc' # supPc)
            => (supPc' = "loop_top" /\ launches' = launches)]_vars
    /\ [][(supPc = "loop_top" /\ supPc' # supPc)
            => (IF attempts < ARTI_MAX_RELAUNCHES
                THEN launches' = launches + 1
                ELSE supPc' = "limit_sent" /\ launches' = launches)]_vars
    /\ [][(supPc \in {"limit_sent", "failed"})
            => (supPc' \in {"limit_sent", "failed"} /\ launches' = launches)]_vars

\* C1 witness: the budget was spent on launches that ran and exited as well
\* as on launches that failed, and the supervisor has failed.
C1_Witness ==
    /\ supPc = "failed"
    /\ launches = ARTI_MAX_RELAUNCHES
    /\ helper = "reaped"
    /\ backoffSecs = ARTI_RESTART_BACKOFF_SECS * ARTI_MAX_RELAUNCHES

\* C2, as claimed: once a shutdown notification was sent while the helper
\* was running and the supervisor was in its select, the supervisor only
\* kills, reaps and returns Stopped; it is never in a backoff, at the top of
\* the loop or failed afterwards.
C2_ShutdownWhileRunningNeverRestarts ==
    firedRunning => supPc \in {"select", "reaping", "stopped"}

\* C3: when the supervisor fails, its own shutdown notification has been
\* sent before; from then on both listeners eventually stop serving and
\* run() eventually returns a Runtime error, so the process exits with
\* code 1; the one way out is a signal that kills the process because it
\* arrives before the forwarder task has installed the handlers.
C3_ExhaustionShutsDown ==
    /\ [](supPc \in {"limit_sent", "failed"} => tailPos >= 1)
    /\ [][(supPc' = "limit_sent" /\ supPc # "limit_sent")
            => (tailPos' = tailPos + 1 /\ ReceiverCount >= 1)]_vars
    /\ [][(supPc' = "failed" /\ supPc # "failed") => (supPc = "limit_sent")]_vars
    /\ (supPc = "failed") ~>
           \/ \A l \in Listeners : ListenerDone(l)
           \/ proc = "killed"
    /\ (supPc = "failed") ~>
           \/ RunResult = "Runtime" /\ ExitCode = 1 /\ proc = "exited"
           \/ proc = "killed"

\* C3 witness: every launch failed, no signal came, and run() returned the
\* restart-limit Runtime error after both listeners shut down gracefully.
C3_Witness ==
    /\ supPc = "failed"
    /\ helper = "none"
    /\ signal = "none"
    /\ \A l \in Listeners : lsPc[l] = "done_ok"
    /\ runError = "restart_limit"
    /\ RunResult = "Runtime"

\* C4, as claimed: whenever the broadcast has been fired, every
\* subscription that exists, also one made after the firing, has observed
\* it or can observe it now.
C4_LateSubscriberObserves ==
    \A r \in Receivers :
        (next[r] >= 0 /\ tailPos > 0) => (reacted[r] > 0 \/ RecvReady(r))

\* C5: no subscriber's recv resolves more than once; a listener that serves
\* stops through its shutdown subscription exactly in the step in which
\* its recv resolves, and a listener that stopped that way reacted once
\* (the shutdown future of a listener that failed may still resolve, once,
\* afterwards); and once two values were sent, no listener stays blocked
\* serving and the supervisor ends, unless the process exits first.
C5_FiringIdempotent ==
    /\ [](\A r \in Receivers : reacted[r] <= 1)
    /\ [](\A l \in Listeners :
            /\ lsPc[l] \in {"draining", "done_ok"} => reacted[l] = 1
            /\ reacted[l] = 1 => lsPc[l] \in {"draining", "done_ok", "done_err"})
    /\ [][\A l \in Listeners :
            (lsPc[l] = "serving" /\ lsPc'[l] = "draining")
                <=> (lsPc[l] = "serving" /\ reacted'[l] = reacted[l] + 1)]_vars
    /\ \A l \in Listeners : (tailPos >= 2) ~> ListenerDone(l)
    /\ (tailPos >= 2) ~> (SupDone \/ ~ProcessAlive)

\* C5 witness: a signal and the supervisor both fired, and each listener
\* reacted once and shut down.
C5_Witness ==
    /\ tailPos = 2
    /\ signal # "none"
    /\ supPc = "failed"
    /\ \A l \in Listeners : reacted[l] = 1 /\ lsPc[l] = "done_ok"

\* the shape ^[a-z2-7]{56}\.onion$, as the specification states it
WellShaped(a) ==
    /\ Len(a) = 62
    /\ \A i \in 1..56 :
         a[i] \in {"a", "b", "c", "d", "e", "f", "g", "h", "i", "j", "k", "l",
                   "m", "n", "o", "p", "q", "r", "s", "t", "u", "v", "w", "x",
                   "y", "z", "2", "3", "4", "5", "6", "7"}
    /\ <<a[57], a[58], a[59], a[60], a[61], a[62]>>
         = <<".", "o", "n", "i", "o", "n">>

\* a is the first line of out that, trimmed, has the shape
FirstWellShapedLine(out, a) ==
    \E i \in 1..Len(Lines(out)) :
        /\ Trim(Lines(out)[i]) = a
        /\ WellShaped(a)
        /\ \A j \in 1..(i - 1) : ~WellShaped(Trim(Lines(out)[j]))

\* C6: the cell is unset, or it holds a well-shaped address that is the
\* first trimmed well-shaped line of the stdout of a query that exited with
\* status 0.
C6_OnlyWellShapedPublished ==
    \/ cell = None /\ source = NoQuery
    \/ /\ cell # None
       /\ WellShaped(cell[1])
       /\ source.kind = "exit0"
       /\ FirstWellShapedLine(source.stdout, cell[1])

\* C6 witness: an address was published from a stdout whose first line is
\* malformed.
C6_Witness ==
    /\ cell # None
    /\ Len(Lines(source.stdout)) >= 2
    /\ ~WellShaped(Trim(Lines(source.stdout)[1]))

\* C7: once set, the cell never changes; the discovery task, once it has
\* written, takes no further step; and a set value a handler has read is
\* the value the cell holds ever after.
C7_SetOnce ==
    /\ [][(cell # None) => (cell' = cell)]_vars
    /\ [](cell # None <=> discPc = "found")
    /\ [][(discPc = "found") => UNCHANGED <<discPc, now, deadline, source>>]_vars
    /\ [](\A l \in Listeners :
            (lastRead[l] # <<>> /\ lastRead[l][1] # None) => lastRead[l][1] = cell)

\* C7 witness: one handler read the cell before it was set and the other
\* read the published address.
C7_Witness ==
    /\ cell # None
    /\ lastRead["onion"] = <<None>>
    /\ lastRead["public"] = <<cell>>

\* C8, as claimed: the cell is set only by a match that a query returned no
\* later than the deadline.
C8_SetOnlyBeforeDeadline ==
    cell # None => now <= deadline

\* C8, amended: the task gives up only at a deadline check made when the
\* deadline has passed, it has written nothing then, and the cell stays
\* unset ever after.
C8_TimeoutLeavesUnset ==
    /\ [](discPc = "timeout" => cell = None /\ deadline >= 0 /\ now >= deadline)
    /\ [][(discPc' = "timeout" /\ discPc # "timeout")
            => (discPc = "check" /\ cell' = cell)]_vars
    /\ [][(discPc = "timeout") => (discPc' = "timeout" /\ cell' = None)]_vars

\* C8 witness: the task timed out and a handler read the unset cell.
C8_Witness ==
    /\ discPc = "timeout"
    /\ cell = None
    /\ lastRead["public"] = <<None>>

\* C9, as claimed: no query is started at a time later than the deadline.
C9_NoQueryStartedPastDeadline ==
    discPc = "inflight" => now <= deadline

\* C10, as claimed: when run() fails because PORT does not parse, no
\* listener socket has been bound.
C10_PortErrorBeforeAnyBind ==
    runError = "port_parse" => \A l \in Listeners : sock[l] = "unbound"

\* C11: whenever run() has returned a Startup error, no listener has begun
\* serving and nothing concurrent was started: the discovery task, the
\* signal forwarder and the supervisor are unspawned, the channel is unused
\* and no helper was ever launched
C11_StartupErrorBeforeAnyActivity ==
    RunResult = "Startup" =>
        /\ \A l \in Listeners : lsPc[l] = "unstarted" /\ reacted[l] = 0
        /\ discPc = "unspawned"
        /\ fwdPc = "unspawned"
        /\ supPc = "unspawned"
        /\ helper = "none"
        /\ launches = 0
        /\ tailPos = 0
        /\ \A r \in Receivers : next[r] = -1

\* C11 witness: the last step that can fail at startup failed, with both
\* listeners already bound
C11_Witness ==
    /\ RunResult = "Startup"
    /\ runError = "public_local_addr"
    /\ \A l \in Listeners : sock[l] = "closed"

\* C12, as claimed: when both listeners finished without error and run() is
\* over, the supervisor task has ended and the outcome is the task's: Ok
\* with exit code 0 exactly when the supervisor stopped, a Runtime error
\* with a nonzero exit code when it failed (the restart-limit error) or
\* when its task panicked and could not be joined (the join error); run()
\* never returns Ok while the supervisor has not stopped.
C12_OutcomeFollowsSupervisor ==
    /\ RunResult = "Ok" =>
           supPc = "stopped" /\ \A l \in Listeners : lsPc[l] = "done_ok"
    /\ runPc = "await_arti" => \A l \in Listeners : lsPc[l] = "done_ok"
    /\ (runPc \in {"returned", "panicked"}
          /\ \A l \in Listeners : lsPc[l] = "done_ok") =>
           /\ SupEnded
           /\ supPc = "stopped" <=> (RunResult = "Ok" /\ ExitCode = 0)
           /\ supPc = "failed" =>
                  /\ RunResult = "Runtime"
                  /\ runError = "restart_limit"
                  /\ ExitCode # 0
           /\ supPc = "panicked" =>
                  /\ RunResult = "Runtime"
                  /\ runError = "join"
                  /\ ExitCode # 0

\* C13: once a listener has reported a runtime error, run() can return the
\* Runtime error at once: its next step does not need the other listener to
\* have finished, nor a shutdown notification to have been sent
C13_ListenerErrorSurfacedAtOnce ==
    (runPc = "join" /\ \E l \in Listeners : lsPc[l] = "done_err") =>
        ENABLED JoinDone

\* C13 as amended: a listener's runtime error is surfaced once both listeners
\* have finished: run() then returns the Runtime error of the onion listener
\* if it failed, else of the public one, without waiting for the supervisor
\* and without sending a notification; it never returns while the other
\* listener still serves; a signal that arrives before the handlers are
\* installed kills the process instead
C13_ListenerErrorSurfacedAfterJoin ==
    /\ []((runPc = "returned" /\ \E l \in Listeners : lsPc[l] = "done_err") =>
             /\ \A l \in Listeners : ListenerDone(l)
             /\ RunResult = "Runtime"
             /\ runError = IF lsPc["onion"] = "done_err"
                           THEN "onion_service" ELSE "public_service")
    /\ [][(runPc = "join" /\ runPc' # "join") => (tailPos' = tailPos)]_vars
    /\ ((\E l \in Listeners : lsPc[l] = "done_err")
            /\ (\A l \in Listeners : ListenerDone(l)))
          ~> (RunResult = "Runtime" \/ proc = "killed")

\* C13 witness: the public listener failed, the onion listener drained after
\* a signal, and run() returned the Runtime error while the supervisor was
\* still reaping arti
C13_Witness ==
    /\ RunResult = "Runtime"
    /\ runError = "public_service"
    /\ lsPc = [onion |-> "done_ok", public |-> "done_err"]
    /\ supPc = "reaping"
    /\ tailPos = 1

\* C14: when a signal was forwarded after startup while the supervisor was
\* in its select with arti alive, and no listener failed, the supervisor
\* ends stopped and run() returns Ok (exit code 0)
C14_SignalWhileRunningExitsZero ==
    (/\ atSignal.runPc = "join"
     /\ atSignal.supPc = "select"
     /\ atSignal.helper = "alive"
     /\ \A l \in Listeners : lsPc[l] # "done_err"
     /\ runPc = "returned")
    => (supPc = "stopped" /\ RunResult = "Ok" /\ ExitCode = 0)

\* the state in which run() has just begun to serve: PORT was unset, every
\* startup step succeeded and no spawned task has run yet
InitServing ==
    /\ runPc = "join"
    /\ runError = "none"
    /\ sock = [l \in Listeners |-> "bound"]
    /\ publicPort = DEFAULT_PORT
    /\ cell = None
    /\ lastRead = [l \in Listeners |-> <<>>]
    /\ discPc = "initial_sleep"
    /\ now = 0
    /\ deadline = -1
    /\ source = NoQuery
    /\ tailPos = 0
    /\ next = [r \in Receivers |-> 0]
    /\ fwdPc = "spawned"
    /\ signal = "none"
    /\ atSignal = NoSignal
    /\ lsPc = [l \in Listeners |-> "serving"]
    /\ reacted = [r \in Receivers |-> 0]
    /\ supPc = "loop_top"
    /\ attempts = 0
    /\ launches = 0
    /\ backoffSecs = 0
    /\ helper = "none"
    /\ firedRunning = FALSE
    /\ proc = "running"
    /\ stdoutOk = TRUE
    /\ stderrOk = TRUE

\* the serving process: the discovery task beside the forwarder, the
\* listeners, the supervisor and the end of run()
NextServing ==
    \/ DiscInitialSleep \/ DiscStartQuery \/ DiscQueryReturnsBrief
    \/ DiscDeadlineCheck \/ DiscRetrySleep
    \/ JoinDone \/ AwaitArti \/ ProcessExit
    \/ FwdRegister \/ SignalKills \/ FwdCtrlC \/ FwdTerminate
    \/ OnionShutdown \/ PublicShutdown \/ OnionDrained \/ PublicDrained
    \/ OnionError \/ PublicError \/ OnionLateRecv \/ PublicLateRecv
    \/ SupLimit \/ SupFail \/ SupLaunch \/ HelperKilled
    \/ SupBackoffDone \/ SupShutdown \/ SupReaped

SpecServing == InitServing /\ [][NextServing]_vars

\* what the discovery task owns, and what shutdown and the outcome rest on
discOwned == <<discPc, now, deadline, source, cell>>
orchOwned == <<runVars, chanVars, fwdVars, lsVars, supVars>>

\* C15: discovery and shutdown do not touch each other: no step changes both
\* the discovery task's state or the cell and anything that shutdown or the
\* result of run() rests on, so a timeout sends nothing and sets no error
\* and a firing leaves the task and the cell as they were; the task ends
\* only by publishing or at its own deadline check
C15_DiscoveryAndShutdownIndependent ==
    /\ [][(discOwned' # discOwned) => (orchOwned' = orchOwned)]_vars
    /\ [][(tailPos' # tailPos) => (discOwned' = discOwned)]_vars
    /\ [][(discPc' # discPc /\ discPc' \in {"found", "timeout"}) =>
             \/ discPc = "inflight" /\ discPc' = "found" /\ cell' # None
             \/ discPc = "check" /\ discPc' = "timeout" /\ DeadlinePassed
                   /\ cell' = None]_vars
    /\ [](discPc = "timeout" => cell = None)

\* C15 witness: the discovery task timed out while both listeners kept
\* serving and arti ran, and nothing was sent on the channel
C15_Witness ==
    /\ discPc = "timeout"
    /\ tailPos = 0
    /\ runPc = "join"
    /\ \A l \in Listeners : lsPc[l] = "serving"
    /\ supPc = "select"
    /\ helper = "alive"

\* C16: at most one arti instance is alive at a time: the supervisor spawns
\* only when there is no instance or the previous one has exited and been
\* waited on, an instance that runs or is being killed is the one the
\* supervisor holds in its select or its final wait, and when the supervisor
\* has returned Ok no instance is alive
C16_SingleHelper ==
    /\ [][(launches' # launches) => (helper \in {"none", "reaped"})]_vars
    /\ [](helper \in {"alive", "killed", "exited"} =>
              supPc \in {"select", "reaping"})
    /\ [](supPc = "stopped" => helper = "reaped")

\* C16 witness: the first arti instance was alive when a signal came, it
\* exited and was reaped, a second instance was launched, and the supervisor
\* stopped after killing and reaping that one
C16_Witness ==
    /\ atSignal.attempts = 1
    /\ atSignal.helper = "alive"
    /\ supPc = "stopped"
    /\ helper = "reaped"
    /\ launches = 2

\* C17: the deadline is looked at only between attempts: whenever a query
\* returned a match the address is published, however late the query
\* returned; a query in flight ends only by returning, never by the
\* deadline; and the task gives up only at a deadline check
C17_DeadlineOnlyBetweenAttempts ==
    /\ [](source # NoQuery => (cell # None /\ discPc = "found"))
    /\ [][(discPc = "inflight") =>
             (discPc' \in {"inflight", "found", "check"})]_vars
    /\ [][(discPc' = "timeout" /\ discPc # "timeout") =>
             (discPc = "check")]_vars

\* C17 witness: a query started before the deadline returned a match after
\* it, and the address was published
C17_Witness ==
    /\ discPc = "found"
    /\ cell # None
    /\ source.started >= 0
    /\ source.started < deadline
    /\ now > deadline

\* C18: once a signal was forwarded while the supervisor was running arti or
\* sleeping a backoff (after an exit or after a failed launch), the
\* supervisor makes no further launch
C18_NoLaunchAfterFiring ==
    [][(atSignal.supPc \in {"select", "backoff_exit", "backoff_spawn"}) =>
          (launches' = launches)]_vars

\* C19: when a signal was forwarded while the supervisor had made fewer than
\* 5 launch attempts, whatever it was doing then, the supervisor ends
\* stopped, and run() returns Ok unless a listener failed
C19_SignalBeforeLimitStops ==
    (/\ atSignal.attempts \in 0..(ARTI_MAX_RELAUNCHES - 1)
     /\ atSignal.supPc \in {"loop_top", "select", "backoff_exit",
                            "backoff_spawn"})
    => /\ SupDone => supPc = "stopped"
       /\ (runPc = "returned" /\ \A l \in Listeners : lsPc[l] # "done_err")
              => (RunResult = "Ok" /\ ExitCode = 0)

\* a notification was sent when every subscription existed: by the forwarder
\* after line 262, or by the supervisor
FiredAfterSubscriptions ==
    \/ atSignal.runPc \in {"spawn_supervisor", "start_servers", "join",
                           "await_arti"}
    \/ supPc \in {"limit_sent", "failed"}

\* C20: after a notification sent when every subscription existed, the
\* system ends cleanly: when run() has returned, both listeners have
\* stopped, the supervisor has stopped or failed and no arti instance is
\* left alive
C20_ShutdownEndsCleanly ==
    (FiredAfterSubscriptions /\ runPc = "returned") =>
        /\ \A l \in Listeners : ListenerDone(l)
        /\ SupDone
        /\ helper \in {"none", "reaped"}

\* C20 as amended: under fair scheduling, after a notification sent when
\* every subscription existed, both listeners stop and run() returns; the
\* supervisor stops or fails with no arti instance left alive unless a
\* listener reported a runtime error, in which case run() returns without
\* waiting for it; after a notification sent by the supervisor alone, a
\* signal that arrives before the handlers are installed ends the process
\* at once instead
C20_ShutdownTerminates ==
    /\ FiredAfterSubscriptions ~>
           \/ \A l \in Listeners : ListenerDone(l)
           \/ proc = "killed"
    /\ FiredAfterSubscriptions ~>
           \/ runPc = "returned" /\ proc = "exited"
           \/ proc = "killed"
    /\ FiredAfterSubscriptions ~>
           \/ SupDone /\ helper \in {"none", "reaped"}
           \/ \E l \in Listeners : lsPc[l] = "done_err"
           \/ proc = "killed"
    /\ []((/\ FiredAfterSubscriptions
           /\ runPc = "returned"
           /\ \A l \in Listeners : lsPc[l] # "done_err")
          => (SupDone /\ helper \in {"none", "reaped"}))

\* C20 witness: the signal came during the backoff after a failed launch,
\* every launch failed, both listeners drained, the supervisor failed and
\* run() returned
C20_Witness ==
    /\ atSignal.runPc = "join"
    /\ atSignal.supPc = "backoff_spawn"
    /\ launches = ARTI_MAX_RELAUNCHES
    /\ helper = "none"
    /\ supPc = "failed"
    /\ \A l \in Listeners : lsPc[l] = "done_ok"
    /\ runPc = "returned"
====
